---- MODULE Spec2Model ----
(***************************************************************************)
(* Model of src/server.py: the generate_pdf handler (lines 62-147).        *)
(*                                                                         *)
(* Strings are sequences of lexemes.  For free text a lexeme is one        *)
(* character; for serialized structured data a lexeme is one JSON token    *)
(* (punctuation, a literal, or a quoted string).  json.loads is modelled   *)
(* as a recursive-descent parser over those lexemes, str.split, str.strip  *)
(* and str.replace as scans over them.                                     *)
(*                                                                         *)
(* reportlab's Paragraph, Spacer, SimpleDocTemplate.build and starlette's  *)
(* StreamingResponse are external collaborators: a Paragraph or Spacer is  *)
(* an opaque block holding its arguments, build copies the block sequence  *)
(* into the buffer.  Table is modelled with the argument validation its    *)
(* constructor performs, because the handler relies on it inside try.      *)
(***************************************************************************)
EXTENDS Integers, Sequences, FiniteSets, TLC

VARIABLES data, pc, story, lines, items, idx, table_data, rows, exc, buffer, response

vars == <<data, pc, story, lines, items, idx, table_data, rows, exc, buffer, response>>

\* ---------------------------------------------------------------- bounds
NumReqs == 2
MaxTitleLen == 2
MaxLen == 3
MaxItems == 2
MaxRows == 2
MaxCols == 2

Reqs == 1..NumReqs

\* ------------------------------------------------- Python / JSON values
\* One record shape for every value: k is the Python type, s the payload of
\* a scalar, keys/items the keys and values of a dict, items the elements
\* of a list.
Val(k, s, keys, its) == [k |-> k, s |-> s, keys |-> keys, items |-> its]
None == Val("NoneType", "", <<>>, <<>>)
PyTrue == Val("bool", "true", <<>>, <<>>)
PyFalse == Val("bool", "false", <<>>, <<>>)
Num(s) == Val("int", s, <<>>, <<>>)
Str(s) == Val("str", s, <<>>, <<>>)
List(its) == Val("list", "", <<>>, its)
Dict(keys, its) == Val("dict", "", keys, its)

\* Mutant: `is not None` in place of truthiness.
TruthyNotNone(v) == v.k # "NoneType"

\* bool(v): Python truthiness, used by `if rows:` and by
\* `if item.get('completed')`.
Truthy(v) ==
    CASE v.k = "NoneType" -> FALSE
      [] v.k = "bool" -> v.s = "true"
      [] v.k = "int" -> v.s # "0"
      [] v.k = "str" -> v.s # ""
      [] v.k = "list" -> v.items # <<>>
      [] v.k = "dict" -> v.keys # <<>>

\* ------------------------------------------------------------ json.loads
StrNames == {"title", "date", "time", "completed", "x", "d", "t", ""}
Quote(s) == "\"" \o s \o "\""
StrTokens == {Quote(s) : s \in StrNames}
StrOf(tok) == CHOOSE s \in StrNames : Quote(s) = tok
NumTokens == {"0", "1"}
JsonWs == {" ", "\n", "\t"}

RECURSIVE SkipWs(_)
SkipWs(t) == IF t # <<>> /\ Head(t) \in JsonWs THEN SkipWs(Tail(t)) ELSE t

ParseOk(v, rest) == [ok |-> TRUE, val |-> v, rest |-> rest]
ParseFail == [ok |-> FALSE, val |-> None, rest |-> <<>>]

RECURSIVE ParseValue(_), ParseElements(_, _), ParseMembers(_, _, _)
ParseValue(t0) ==
    LET t == SkipWs(t0) IN
    IF t = <<>> THEN ParseFail
    ELSE LET h == Head(t)
             r == Tail(t)
             r1 == SkipWs(r)
         IN CASE h = "null" -> ParseOk(None, r)
              [] h = "true" -> ParseOk(PyTrue, r)
              [] h = "false" -> ParseOk(PyFalse, r)
              [] h \in NumTokens -> ParseOk(Num(h), r)
              [] h \in StrTokens -> ParseOk(Str(StrOf(h)), r)
              [] h = "[" -> IF r1 # <<>> /\ Head(r1) = "]"
                            THEN ParseOk(List(<<>>), Tail(r1))
                            ELSE ParseElements(r, <<>>)
              [] h = "{" -> IF r1 # <<>> /\ Head(r1) = "}"
                            THEN ParseOk(Dict(<<>>, <<>>), Tail(r1))
                            ELSE ParseMembers(r, <<>>, <<>>)
              [] OTHER -> ParseFail

ParseElements(t, acc) ==
    LET v == ParseValue(t) IN
    IF ~v.ok THEN ParseFail
    ELSE LET r == SkipWs(v.rest) IN
         IF r = <<>> THEN ParseFail
         ELSE IF Head(r) = "," THEN ParseElements(Tail(r), Append(acc, v.val))
         ELSE IF Head(r) = "]" THEN ParseOk(List(Append(acc, v.val)), Tail(r))
         ELSE ParseFail

\* A repeated key keeps its first position and takes the last value, as a
\* Python dict does.
PutKey(keys, vals, k, v) ==
    IF \E i \in 1..Len(keys) : keys[i] = k
    THEN [keys |-> keys,
          vals |-> [i \in 1..Len(vals) |-> IF keys[i] = k THEN v ELSE vals[i]]]
    ELSE [keys |-> Append(keys, k), vals |-> Append(vals, v)]

ParseMembers(t, keys, vals) ==
    LET k == SkipWs(t) IN
    IF k = <<>> \/ Head(k) \notin StrTokens THEN ParseFail
    ELSE LET c == SkipWs(Tail(k)) IN
         IF c = <<>> \/ Head(c) # ":" THEN ParseFail
         ELSE LET v == ParseValue(Tail(c)) IN
              IF ~v.ok THEN ParseFail
              ELSE LET r == SkipWs(v.rest)
                       kv == PutKey(keys, vals, StrOf(Head(k)), v.val)
                   IN IF r = <<>> THEN ParseFail
                      ELSE IF Head(r) = "," THEN ParseMembers(Tail(r), kv.keys, kv.vals)
                      ELSE IF Head(r) = "}" THEN ParseOk(Dict(kv.keys, kv.vals), Tail(r))
                      ELSE ParseFail

\* json.loads(s): one value, optional whitespace around it, nothing after;
\* anything else raises JSONDecodeError.
JsonLoads(s) ==
    LET v == ParseValue(s) IN
    IF v.ok /\ SkipWs(v.rest) = <<>> THEN [ok |-> TRUE, val |-> v.val]
    ELSE [ok |-> FALSE, val |-> None]

\* ------------------------------------------------------- str operations
\* Characters str.strip() removes.
PyWs == {" ", "\t", "\n", "\r"}

\* s.split(sep): the segments between occurrences of sep; the empty string
\* splits into one empty segment.
RECURSIVE SplitFrom(_, _, _)
SplitFrom(s, sep, cur) ==
    IF s = <<>> THEN <<cur>>
    ELSE IF Head(s) = sep THEN <<cur>> \o SplitFrom(Tail(s), sep, <<>>)
    ELSE SplitFrom(Tail(s), sep, Append(cur, Head(s)))

Split(s, sep) == SplitFrom(s, sep, <<>>)

RECURSIVE LStrip(_)
LStrip(s) == IF s # <<>> /\ Head(s) \in PyWs THEN LStrip(Tail(s)) ELSE s

RECURSIVE RStrip(_)
RStrip(s) ==
    IF s # <<>> /\ s[Len(s)] \in PyWs THEN RStrip(SubSeq(s, 1, Len(s) - 1)) ELSE s

\* Mutant: `if line:` in place of `if line.strip():`.
StripNone(s) == s

Strip(s) == RStrip(LStrip(s))

\* Mutant: only the first occurrence is replaced.
ReplaceFirst(s, old, new) ==
    [i \in 1..Len(s) |->
        IF s[i] = old /\ \A j \in 1..(i - 1) : s[j] # old THEN new ELSE s[i]]

\* s.replace(old, new) for one-character old and new.
Replace(s, old, new) == [i \in 1..Len(s) |-> IF s[i] = old THEN new ELSE s[i]]

\* ---------------------------------------------------------------- blocks
SpacerWidth == 1
SpacerHeight == 12

Block(b, text, style, tdata, w, h) ==
    [b |-> b, text |-> text, style |-> style, data |-> tdata, w |-> w, h |-> h]

Paragraph(text, style) == Block("Paragraph", text, style, <<>>, 0, 0)
Spacer(w, h) == Block("Spacer", <<>>, "", <<>>, w, h)

\* Table(data, ...) with the TableStyle the handler sets on it.
Table(tdata, style) == Block("Table", <<>>, style, tdata, 0, 0)

\* iter(v) for `for item in items` and for the rows Table reads: the
\* elements of a list, the keys of a dict, the characters of a str (each a
\* str; one lexeme stands for them); any other type is not iterable.
Iterable(v) == v.k \in {"list", "dict", "str"}
Iter(v) ==
    CASE v.k = "list" -> v.items
      [] v.k = "dict" -> [i \in 1..Len(v.keys) |-> Str(v.keys[i])]
      [] v.k = "str" -> IF v.s = "" THEN <<>> ELSE <<Str(v.s)>>
      [] OTHER -> <<>>

\* Table.__init__ counts a row that is no list as one column.
RowLen(row) == IF row.k = "list" THEN Len(row.items) ELSE 1

\* Table.__init__ raises unless data is a list with at least one row and
\* one column whose rows can be iterated.
TableRaises(v) ==
    \/ v.k # "list"
    \/ v.items = <<>>
    \/ \A i \in 1..Len(v.items) : RowLen(v.items[i]) = 0
    \/ \E i \in 1..Len(v.items) : ~Iterable(v.items[i])

\* What it raises: ValueError from its own checks, TypeError from reading
\* a row that cannot be iterated.
TableError(v) ==
    IF /\ v.k = "list"
       /\ v.items # <<>>
       /\ \E i \in 1..Len(v.items) : RowLen(v.items[i]) # 0
    THEN "TypeError" ELSE "ValueError"

\* Mutant: short rows are filled up to the widest row with ''.
RowsOfPadded(v) ==
    LET lens == {Len(Iter(v.items[i])) : i \in 1..Len(v.items)} \cup {0}
        n == CHOOSE m \in lens : \A x \in lens : x <= m
    IN [i \in 1..Len(v.items) |->
          [j \in 1..n |-> IF j <= Len(Iter(v.items[i])) THEN Iter(v.items[i])[j] ELSE Str("")]]

\* The rows Table(data) lays out, each the cells of one row of data.
RowsOf(v) == [i \in 1..Len(v.items) |-> Iter(v.items[i])]

\* ---------------------------------------------------------------- agenda
AgendaHeader == <<Str("Título"), Str("Data"), Str("Hora"), Str("Status")>>

\* item.get(key, default) on a dict.
Get(item, key, default) ==
    IF \E i \in 1..Len(item.keys) : item.keys[i] = key
    THEN item.items[CHOOSE i \in 1..Len(item.keys) : item.keys[i] = key]
    ELSE default

\* Mutant: `is True` in place of truthiness.
StatusLabelIsTrue(item) ==
    IF Get(item, "completed", None) = PyTrue THEN Str("Concluído") ELSE Str("Pendente")

StatusLabel(item) ==
    IF Truthy(Get(item, "completed", None)) THEN Str("Concluído") ELSE Str("Pendente")

\* Mutant: the date and time columns change places.
AgendaRowSwapped(item) ==
    <<Get(item, "title", Str("")), Get(item, "time", Str("")),
      Get(item, "date", Str("")), StatusLabel(item)>>

AgendaRow(item) ==
    <<Get(item, "title", Str("")), Get(item, "date", Str("")),
      Get(item, "time", Str("")), StatusLabel(item)>>

\* ------------------------------------------------------------- requests
\* Mutant: one module-level story, emptied by every call.
SharedStory(st, r) == [q \in DOMAIN st |-> <<>>]

\* story = [] (line 67): a list of the call's own.
FreshStory(st, r) == [st EXCEPT ![r] = <<>>]

\* Mutant: the type is matched ignoring case.
BranchIgnoreCase(type) ==
    CASE type \in {"docs", "DOCS"} -> "docs"
      [] type = "agenda" -> "agenda"
      [] type = "planilhas" -> "planilhas"
      [] OTHER -> "build"

\* The if / elif chain of lines 82, 90 and 118; no else branch.
Branch(type) ==
    CASE type = "docs" -> "docs"
      [] type = "agenda" -> "agenda"
      [] type = "planilhas" -> "planilhas"
      [] OTHER -> "build"

\* Mutant: `except: pass`.
CatchPass(section, kind) == "build"

\* Mutant: `except json.JSONDecodeError:`, anything else escapes.
CatchDecodeOnly(section, kind) ==
    IF kind # "JSONDecodeError" THEN "failed"
    ELSE IF section = "agenda" THEN "agenda_except" ELSE "planilhas_except"

\* The bare `except:` of lines 115 and 135 catches every exception raised
\* in its try block.
Catch(section, kind) ==
    IF section = "agenda" THEN "agenda_except" ELSE "planilhas_except"

\* f"...{data.title.replace(' ', '_')}.pdf"
Filename(title) == Replace(title, " ", "_") \o <<".pdf">>

NoResponse == [status |-> 0, media_type |-> "", filename |-> <<>>, body |-> <<>>]

StreamingResponse(body, title) ==
    [status |-> 200, media_type |-> "application/pdf",
     filename |-> Filename(title), body |-> body]

\* Lines 65-79.
Begin(r) ==
    /\ pc[r] = "start"
    /\ story' = [FreshStory(story, r) EXCEPT
                   ![r] = <<Paragraph(data[r].title, "CustomTitle"),
                            Spacer(SpacerWidth, SpacerHeight)>>]
    /\ buffer' = [buffer EXCEPT ![r] = <<>>]
    /\ pc' = [pc EXCEPT ![r] = "dispatch"]
    /\ UNCHANGED <<data, lines, items, idx, table_data, rows, exc, response>>

\* Lines 82, 90, 118 and, for docs, the split of line 85.
Dispatch(r) ==
    /\ pc[r] = "dispatch"
    /\ pc' = [pc EXCEPT ![r] = Branch(data[r].type)]
    /\ IF Branch(data[r].type) = "docs"
       THEN /\ lines' = [lines EXCEPT ![r] = Split(data[r].content, "\n")]
            /\ idx' = [idx EXCEPT ![r] = 1]
       ELSE UNCHANGED <<lines, idx>>
    /\ UNCHANGED <<data, story, items, table_data, rows, exc, buffer, response>>

\* Lines 85-88, one iteration.
DocsLine(r) ==
    /\ pc[r] = "docs"
    /\ idx[r] <= Len(lines[r])
    /\ LET line == lines[r][idx[r]] IN
       story' = [story EXCEPT ![r] =
                   IF Strip(line) # <<>>
                   THEN @ \o <<Paragraph(line, "Normal"),
                               Spacer(SpacerWidth, SpacerHeight)>>
                   ELSE @]
    /\ idx' = [idx EXCEPT ![r] = @ + 1]
    /\ UNCHANGED <<data, pc, lines, items, table_data, rows, exc, buffer, response>>

\* Line 85, the loop is exhausted.
DocsEnd(r) ==
    /\ pc[r] = "docs"
    /\ idx[r] > Len(lines[r])
    /\ pc' = [pc EXCEPT ![r] = "build"]
    /\ UNCHANGED <<data, story, lines, items, idx, table_data, rows, exc, buffer, response>>

\* Lines 93-95: json.loads, the header row, iter(items).
AgendaLoads(r) ==
    /\ pc[r] = "agenda"
    /\ LET p == JsonLoads(data[r].content) IN
       IF ~p.ok
       THEN /\ pc' = [pc EXCEPT ![r] = Catch("agenda", "JSONDecodeError")]
            /\ exc' = [exc EXCEPT ![r] = "JSONDecodeError"]
            /\ UNCHANGED <<items, idx, table_data>>
       ELSE /\ table_data' = [table_data EXCEPT ![r] = List(<<List(AgendaHeader)>>)]
            /\ IF Iterable(p.val)
               THEN /\ items' = [items EXCEPT ![r] = Iter(p.val)]
                    /\ idx' = [idx EXCEPT ![r] = 1]
                    /\ pc' = [pc EXCEPT ![r] = "agenda_items"]
                    /\ UNCHANGED exc
               ELSE /\ pc' = [pc EXCEPT ![r] = Catch("agenda", "TypeError")]
                    /\ exc' = [exc EXCEPT ![r] = "TypeError"]
                    /\ UNCHANGED <<items, idx>>
    /\ UNCHANGED <<data, story, lines, rows, buffer, response>>

\* Lines 95-101, one iteration; .get exists on a dict only.
AgendaItem(r) ==
    /\ pc[r] = "agenda_items"
    /\ idx[r] <= Len(items[r])
    /\ LET item == items[r][idx[r]] IN
       IF item.k = "dict"
       THEN /\ table_data' = [table_data EXCEPT ![r] =
                                List(Append(@.items, List(AgendaRow(item))))]
            /\ idx' = [idx EXCEPT ![r] = @ + 1]
            /\ UNCHANGED <<pc, exc>>
       ELSE /\ pc' = [pc EXCEPT ![r] = Catch("agenda", "AttributeError")]
            /\ exc' = [exc EXCEPT ![r] = "AttributeError"]
            /\ UNCHANGED <<table_data, idx>>
    /\ UNCHANGED <<data, story, lines, items, rows, buffer, response>>

\* Lines 103-114.
AgendaTable(r) ==
    /\ pc[r] = "agenda_items"
    /\ idx[r] > Len(items[r])
    /\ IF TableRaises(table_data[r])
       THEN /\ pc' = [pc EXCEPT ![r] = Catch("agenda", TableError(table_data[r]))]
            /\ exc' = [exc EXCEPT ![r] = TableError(table_data[r])]
            /\ UNCHANGED story
       ELSE /\ story' = [story EXCEPT ![r] =
                           Append(@, Table(RowsOf(table_data[r]), "agenda"))]
            /\ pc' = [pc EXCEPT ![r] = "build"]
            /\ UNCHANGED exc
    /\ UNCHANGED <<data, lines, items, idx, table_data, rows, buffer, response>>

\* Lines 115-116.
AgendaExcept(r) ==
    /\ pc[r] = "agenda_except"
    /\ story' = [story EXCEPT ![r] = Append(@, Paragraph(data[r].content, "Normal"))]
    /\ pc' = [pc EXCEPT ![r] = "build"]
    /\ UNCHANGED <<data, lines, items, idx, table_data, rows, exc, buffer, response>>

\* Lines 121-122.
PlanilhasLoads(r) ==
    /\ pc[r] = "planilhas"
    /\ LET p == JsonLoads(data[r].content) IN
       IF ~p.ok
       THEN /\ pc' = [pc EXCEPT ![r] = Catch("planilhas", "JSONDecodeError")]
            /\ exc' = [exc EXCEPT ![r] = "JSONDecodeError"]
            /\ UNCHANGED rows
       ELSE /\ rows' = [rows EXCEPT ![r] = p.val]
            /\ pc' = [pc EXCEPT ![r] = IF Truthy(p.val) THEN "planilhas_table" ELSE "build"]
            /\ UNCHANGED exc
    /\ UNCHANGED <<data, story, lines, items, idx, table_data, buffer, response>>

\* Lines 123-134.
PlanilhasTable(r) ==
    /\ pc[r] = "planilhas_table"
    /\ IF TableRaises(rows[r])
       THEN /\ pc' = [pc EXCEPT ![r] = Catch("planilhas", TableError(rows[r]))]
            /\ exc' = [exc EXCEPT ![r] = TableError(rows[r])]
            /\ UNCHANGED story
       ELSE /\ story' = [story EXCEPT ![r] =
                           Append(@, Table(RowsOf(rows[r]), "planilhas"))]
            /\ pc' = [pc EXCEPT ![r] = "build"]
            /\ UNCHANGED exc
    /\ UNCHANGED <<data, lines, items, idx, table_data, rows, buffer, response>>

\* Lines 135-136.
PlanilhasExcept(r) ==
    /\ pc[r] = "planilhas_except"
    /\ story' = [story EXCEPT ![r] = Append(@, Paragraph(data[r].content, "Normal"))]
    /\ pc' = [pc EXCEPT ![r] = "build"]
    /\ UNCHANGED <<data, lines, items, idx, table_data, rows, exc, buffer, response>>

\* Lines 139-140.
Build(r) ==
    /\ pc[r] = "build"
    /\ buffer' = [buffer EXCEPT ![r] = story[r]]
    /\ pc' = [pc EXCEPT ![r] = "respond"]
    /\ UNCHANGED <<data, story, lines, items, idx, table_data, rows, exc, response>>

\* Lines 143-147.
Respond(r) ==
    /\ pc[r] = "respond"
    /\ response' = [response EXCEPT ![r] = StreamingResponse(buffer[r], data[r].title)]
    /\ pc' = [pc EXCEPT ![r] = "done"]
    /\ UNCHANGED <<data, story, lines, items, idx, table_data, rows, exc, buffer>>

Step(r) ==
    \/ Begin(r)
    \/ Dispatch(r)
    \/ DocsLine(r)
    \/ DocsEnd(r)
    \/ AgendaLoads(r)
    \/ AgendaItem(r)
    \/ AgendaTable(r)
    \/ AgendaExcept(r)
    \/ PlanilhasLoads(r)
    \/ PlanilhasTable(r)
    \/ PlanilhasExcept(r)
    \/ Build(r)
    \/ Respond(r)

Next == \E r \in Reqs : Step(r)

\* ------------------------------------------------------- request bodies
\* What a client sends: JSON.stringify of a value (sp is the whitespace
\* written after "," and ":"), or any other text.
RECURSIVE Serialise(_, _), SerialiseItems(_, _), SerialiseMembers(_, _, _)
Serialise(v, sp) ==
    CASE v.k = "NoneType" -> <<"null">>
      [] v.k = "bool" -> <<v.s>>
      [] v.k = "int" -> <<v.s>>
      [] v.k = "str" -> <<Quote(v.s)>>
      [] v.k = "list" -> <<"[">> \o SerialiseItems(v.items, sp) \o <<"]">>
      [] v.k = "dict" -> <<"{">> \o SerialiseMembers(v.keys, v.items, sp) \o <<"}">>

SerialiseItems(its, sp) ==
    IF its = <<>> THEN <<>>
    ELSE IF Len(its) = 1 THEN Serialise(its[1], sp)
    ELSE Serialise(its[1], sp) \o <<",">> \o sp \o SerialiseItems(Tail(its), sp)

SerialiseMembers(keys, its, sp) ==
    IF keys = <<>> THEN <<>>
    ELSE LET m == <<Quote(keys[1]), ":">> \o sp \o Serialise(its[1], sp) IN
         IF Len(keys) = 1 THEN m
         ELSE m \o <<",">> \o sp \o SerialiseMembers(Tail(keys), Tail(its), sp)

SeqsUpTo(S, n) == UNION {[1..k -> S] : k \in 0..n}

FieldValue(key) ==
    CASE key = "title" -> Str("x")
      [] key = "date" -> Str("d")
      [] key = "time" -> Str("t")

\* A record supplying the text fields in K and, when hasC, completed = c.
Record(K, hasC, c) ==
    LET ks == SelectSeq(<<"title", "date", "time">>, LAMBDA k : k \in K) IN
    Dict(ks \o (IF hasC THEN <<"completed">> ELSE <<>>),
         [i \in 1..Len(ks) |-> FieldValue(ks[i])] \o (IF hasC THEN <<c>> ELSE <<>>))

CompletedVals ==
    {PyTrue, PyFalse, None, Num("0"), Num("1"), Str(""), Str("x"),
     List(<<>>), Dict(<<>>, <<>>)}

Records ==
    {Record(K, TRUE, c) : K \in SUBSET {"title", "date", "time"}, c \in CompletedVals}
    \cup {Record(K, FALSE, None) : K \in SUBSET {"title", "date", "time"}}
    \cup {Dict(<<"title", "completed">>, <<None, PyTrue>>)}

FullRecord == Record({"title", "date", "time"}, TRUE, PyTrue)

SmallItems ==
    {FullRecord, Dict(<<>>, <<>>), Record({"date"}, TRUE, PyFalse), Num("1"), Str("x")}

AgendaValues ==
    {List(<<rec>>) : rec \in Records}
    \cup {List(its) : its \in SeqsUpTo(SmallItems, MaxItems)}

CellPool == <<Str("x"), Str("d"), Num("1"), None, Str(""), Str("t")>>
CellAt(i, j) == CellPool[(((i - 1) * 2 + (j - 1)) % Len(CellPool)) + 1]

\* A sheet whose row i has ws[i] cells.
Sheet(ws) == List([i \in 1..Len(ws) |-> List([j \in 1..ws[i] |-> CellAt(i, j)])])

SheetValues ==
    {Sheet(ws) : ws \in SeqsUpTo(0..MaxCols, MaxRows)}
    \cup {List(<<Num("1")>>), List(<<List(<<Str("x")>>), Num("1")>>),
          List(<<Dict(<<>>, <<>>)>>)}

OtherValues ==
    {None, PyTrue, PyFalse, Num("0"), Num("1"), Str(""), Str("x"),
     Dict(<<>>, <<>>), Dict(<<"title">>, <<Str("x")>>)}

JsonValues == AgendaValues \cup SheetValues \cup OtherValues

SpacedValues == {List(<<FullRecord, Dict(<<>>, <<>>)>>), Sheet(<<1, 1>>)}

\* Whitespace around and inside an otherwise empty value.
Padded == {<<" ", "[", " ", "]", "\n">>, <<"{", "\t", "}">>, <<"\n", "null", " ">>}

Prefixes(s) == {SubSeq(s, 1, n) : n \in 0..(Len(s) - 1)}

Malformed ==
    UNION {Prefixes(Serialise(v, <<>>)) : v \in {List(<<FullRecord>>), Sheet(<<1, 1>>)}}
    \cup {<<"[", "]", "[", "]">>, <<"[", "1", ",", "]">>, <<"{", "1", ":", "1", "}">>,
          <<"[", "{", "}", ",", "a", "]">>, <<"{", "\"x\"", "}">>, <<"]">>}

TextAlphabet == {"a", "b", " ", "\n"}
Texts == SeqsUpTo(TextAlphabet, MaxLen)

Contents ==
    Texts \cup Malformed
    \cup {Serialise(v, <<>>) : v \in JsonValues}
    \cup {Serialise(v, <<" ">>) : v \in SpacedValues}
    \cup Padded

TitleAlphabet == {"a", " ", "_"}
Titles == SeqsUpTo(TitleAlphabet, MaxTitleLen)

Types == {"docs", "agenda", "planilhas", "relatorio", "DOCS", ""}

SmallContents ==
    {<<>>, <<"a", "\n", " ", "\n", "b">>, <<"[">>,
     Serialise(List(<<FullRecord>>), <<>>), Serialise(Sheet(<<1, 1>>), <<>>)}

PDFContentModel(title, content, type) ==
    [title |-> title, content |-> content, type |-> type]

Inputs ==
    {PDFContentModel(t, c, ty) : t \in Titles, c \in SmallContents, ty \in Types}
    \cup {PDFContentModel(<<"a", " ">>, c, ty) : c \in Contents, ty \in Types}

ConcInputs ==
    {PDFContentModel(<<"a", " ">>, <<"a", "\n", " ">>, "docs"),
     PDFContentModel(<<" ", "b">>, Serialise(List(<<FullRecord>>), <<>>), "agenda"),
     PDFContentModel(<<"a">>, Serialise(List(<<Num("1")>>), <<>>), "agenda"),
     PDFContentModel(<<"b", " ">>, Serialise(Sheet(<<1>>), <<>>), "planilhas"),
     PDFContentModel(<<>>, Serialise(Num("1"), <<>>), "planilhas"),
     PDFContentModel(<<" ">>, <<"a">>, "relatorio")}

NoRequest == PDFContentModel(<<>>, <<>>, "")

\* ------------------------------------------------------- specifications
Locals(p) ==
    /\ pc = p
    /\ story = [r \in Reqs |-> <<>>]
    /\ lines = [r \in Reqs |-> <<>>]
    /\ items = [r \in Reqs |-> <<>>]
    /\ idx = [r \in Reqs |-> 1]
    /\ table_data = [r \in Reqs |-> List(<<>>)]
    /\ rows = [r \in Reqs |-> None]
    /\ exc = [r \in Reqs |-> ""]
    /\ buffer = [r \in Reqs |-> <<>>]
    /\ response = [r \in Reqs |-> NoResponse]

\* One request in flight, any input.
Init ==
    /\ \E d \in Inputs : data = [r \in Reqs |-> IF r = 1 THEN d ELSE NoRequest]
    /\ Locals([r \in Reqs |-> IF r = 1 THEN "start" ELSE "idle"])

Spec == Init /\ [][Next]_vars

\* Every request in flight at once, steps interleaved.
InitConc ==
    /\ data \in [Reqs -> ConcInputs]
    /\ Locals([r \in Reqs |-> "start"])

SpecConc == InitConc /\ [][Next]_vars

\* ------------------------------------------- the handler as a function
\* generate_pdf run from entry to return on its own.
RECURSIVE DocsBlocks(_)
DocsBlocks(ls) ==
    IF ls = <<>> THEN <<>>
    ELSE (IF Strip(Head(ls)) # <<>>
          THEN <<Paragraph(Head(ls), "Normal"), Spacer(SpacerWidth, SpacerHeight)>>
          ELSE <<>>) \o DocsBlocks(Tail(ls))

AgendaBlocks(content) ==
    LET p == JsonLoads(content)
        its == Iter(p.val)
    IN IF p.ok /\ Iterable(p.val) /\ \A i \in 1..Len(its) : its[i].k = "dict"
       THEN <<Table(<<AgendaHeader>> \o [i \in 1..Len(its) |-> AgendaRow(its[i])], "agenda")>>
       ELSE <<Paragraph(content, "Normal")>>

PlanilhasBlocks(content) ==
    LET p == JsonLoads(content) IN
    IF ~p.ok THEN <<Paragraph(content, "Normal")>>
    ELSE IF ~Truthy(p.val) THEN <<>>
    ELSE IF TableRaises(p.val) THEN <<Paragraph(content, "Normal")>>
    ELSE <<Table(RowsOf(p.val), "planilhas")>>

Render(d) ==
    StreamingResponse(
        <<Paragraph(d.title, "CustomTitle"), Spacer(SpacerWidth, SpacerHeight)>>
        \o (CASE d.type = "docs" -> DocsBlocks(Split(d.content, "\n"))
              [] d.type = "agenda" -> AgendaBlocks(d.content)
              [] d.type = "planilhas" -> PlanilhasBlocks(d.content)
              [] OTHER -> <<>>),
        d.title)

\* ================================================================ claims
Done(r) == pc[r] = "done"

TitleBlocks(r) ==
    <<Paragraph(data[r].title, "CustomTitle"), Spacer(SpacerWidth, SpacerHeight)>>

Fallback(r) == TitleBlocks(r) \o <<Paragraph(data[r].content, "Normal")>>

Succeeded(r) ==
    /\ response[r].status = 200
    /\ response[r].media_type = "application/pdf"
    /\ response[r].body = story[r]

\* The lines of a text, from the positions of its line breaks.
Breaks(c) == {i \in 1..Len(c) : c[i] = "\n"}
BreakAt(c, k) ==
    IF k = 0 THEN 0
    ELSE IF k > Cardinality(Breaks(c)) THEN Len(c) + 1
    ELSE CHOOSE i \in Breaks(c) : Cardinality({j \in Breaks(c) : j <= i}) = k
LineAt(c, k) == SubSeq(c, BreakAt(c, k - 1) + 1, BreakAt(c, k) - 1)
NonBlank(line) == \E i \in 1..Len(line) : line[i] \notin {" ", "\t", "\r", "\n"}

RECURSIVE ExpectedDocs(_, _)
ExpectedDocs(c, k) ==
    IF k > Cardinality(Breaks(c)) + 1 THEN <<>>
    ELSE (IF NonBlank(LineAt(c, k))
          THEN <<Paragraph(LineAt(c, k), "Normal"), Spacer(SpacerWidth, SpacerHeight)>>
          ELSE <<>>) \o ExpectedDocs(c, k + 1)

\* C1: for type "docs" the block sequence is the title block followed by one
\* paragraph block plus one spacer block per line of content that is
\* non-blank after trimming, in line order; blank lines contribute nothing.
C1_DocsParagraphs ==
    \A r \in Reqs :
        Done(r) /\ data[r].type = "docs"
        => story[r] = TitleBlocks(r) \o ExpectedDocs(data[r].content, 1)

C1_Witness ==
    /\ Done(1)
    /\ data[1].type = "docs"
    /\ data[1].content = <<"a", "\n", " ", "\n", "b">>
    /\ Len(story[1]) = 6

\* Whether a parsed value is an ordered sequence of records.
IsRecords(v) == v.k = "list" /\ \A i \in 1..Len(v.items) : v.items[i].k = "dict"

HasKey(rec, key) == \E j \in 1..Len(rec.keys) : rec.keys[j] = key
Field(rec, key) == rec.items[CHOOSE j \in 1..Len(rec.keys) : rec.keys[j] = key]

FalsyValues ==
    {None, PyFalse, Num("0"), Str(""), List(<<>>), Dict(<<>>, <<>>)}

CompletedTruthy(rec) ==
    HasKey(rec, "completed") /\ Field(rec, "completed") \notin FalsyValues

TableOf(r) == story[r][3]

\* C2: for type "agenda" whose content parses to N records the table has
\* N+1 rows and the fourth column of row i+1 is "Concluído" iff record i's
\* completed field is truthy, "Pendente" otherwise.
C2_AgendaRowsAndStatus ==
    \A r \in Reqs :
        LET p == JsonLoads(data[r].content) IN
        Done(r) /\ data[r].type = "agenda" /\ p.ok /\ IsRecords(p.val)
        => /\ Len(story[r]) = 3
           /\ TableOf(r).b = "Table"
           /\ Len(TableOf(r).data) = Len(p.val.items) + 1
           /\ \A i \in 1..Len(p.val.items) :
                 /\ Len(TableOf(r).data[i + 1]) = 4
                 /\ TableOf(r).data[i + 1][4] =
                        IF CompletedTruthy(p.val.items[i])
                        THEN Str("Concluído") ELSE Str("Pendente")

C2_Witness ==
    /\ Done(1)
    /\ data[1].type = "agenda"
    /\ data[1].content =
           Serialise(List(<<FullRecord, Record({"date"}, TRUE, PyFalse)>>), <<>>)
    /\ Len(TableOf(1).data) = 3
    /\ TableOf(1).data[2][4] = Str("Concluído")
    /\ TableOf(1).data[3][4] = Str("Pendente")

\* Whether the content is structured data of the shape the type expects:
\* a sequence of records for agenda, a sequence of rows for planilhas.
IsRows(v) == v.k = "list" /\ \A i \in 1..Len(v.items) : v.items[i].k = "list"

RightShape(d) ==
    LET p == JsonLoads(d.content) IN
    p.ok /\ (IF d.type = "agenda" THEN IsRecords(p.val) ELSE IsRows(p.val))

\* Whether the try block of the type raises on the content.
AgendaRaises(c) ==
    LET p == JsonLoads(c) IN
    \/ ~p.ok
    \/ p.val.k \in {"NoneType", "bool", "int"}
    \/ p.val.k = "list" /\ ~IsRecords(p.val)
    \/ p.val.k = "dict" /\ p.val.keys # <<>>
    \/ p.val.k = "str" /\ p.val.s # ""

PlanilhasRaises(c) ==
    LET p == JsonLoads(c) IN
    \/ ~p.ok
    \/ p.val.k \in {"bool", "int", "str", "dict"} /\ p.val \notin FalsyValues
    \/ /\ p.val.k = "list"
       /\ p.val.items # <<>>
       /\ \/ \E i \in 1..Len(p.val.items) : p.val.items[i].k \in {"NoneType", "bool", "int"}
          \/ \A i \in 1..Len(p.val.items) :
                p.val.items[i].k = "list" /\ p.val.items[i].items = <<>>

TryRaises(d) ==
    IF d.type = "agenda" THEN AgendaRaises(d.content) ELSE PlanilhasRaises(d.content)

\* C3 as stated: for type "agenda" or "planilhas", content that is malformed
\* or well-formed but of the wrong shape yields the title block followed by
\* exactly one plain paragraph holding the raw content, and no table.
C3_WrongShapeFallsBack ==
    \A r \in Reqs :
        Done(r) /\ data[r].type \in {"agenda", "planilhas"} /\ ~RightShape(data[r])
        => story[r] = Fallback(r)

\* C3 amended: for type "agenda" or "planilhas", content on which parsing or
\* building the table raises (malformed input, a value that cannot be
\* iterated, an element that is no record or row, part-way included) never
\* lets the exception escape, and the block sequence is the title block
\* followed by exactly one plain paragraph holding the raw content, with no
\* table, returned as a success.
C3_RaisingFallsBack ==
    \A r \in Reqs :
        data[r].type \in {"agenda", "planilhas"} /\ TryRaises(data[r])
        => /\ pc[r] # "failed"
           /\ pc[r] \in {"build", "respond", "done"} => story[r] = Fallback(r)
           /\ Done(r) => Succeeded(r)

C3_Witness ==
    /\ Done(1)
    /\ data[1].type = "agenda"
    /\ data[1].content = Serialise(List(<<FullRecord, Num("1")>>), <<>>)
    /\ exc[1] = "AttributeError"
    /\ Len(table_data[1].items) = 2
    /\ story[1] = Fallback(1)

\* C4: for type "planilhas" whose content parses to an empty row collection
\* the document is the title only, no table and no content paragraph, and
\* the request succeeds.
C4_EmptySheetTitleOnly ==
    \A r \in Reqs :
        LET p == JsonLoads(data[r].content) IN
        data[r].type = "planilhas" /\ p.ok /\ p.val = List(<<>>)
        => /\ pc[r] # "failed"
           /\ Done(r) => story[r] = TitleBlocks(r) /\ Succeeded(r)

C4_Witness ==
    /\ Done(1)
    /\ data[1].type = "planilhas"
    /\ data[1].content = <<" ", "[", " ", "]", "\n">>
    /\ rows[1] = List(<<>>)
    /\ story[1] = TitleBlocks(1)

\* C5: for any type other than exactly "docs", "agenda" or "planilhas", and
\* any content, the document holds only the title block and the request
\* succeeds.
C5_UnknownTypeTitleOnly ==
    \A r \in Reqs :
        data[r].type \notin {"docs", "agenda", "planilhas"}
        => /\ pc[r] # "failed"
           /\ Done(r) => story[r] = TitleBlocks(r) /\ Succeeded(r)

C5_Witness ==
    /\ Done(1)
    /\ data[1].type = "DOCS"
    /\ data[1].content = <<"a", "\n", " ", "\n", "b">>
    /\ response[1].body = TitleBlocks(1)

\* C6: whatever the type, the content and the path taken, the returned
\* filename is the title with every space replaced by an underscore,
\* followed by ".pdf".
C6_Filename ==
    \A r \in Reqs :
        Done(r)
        => LET t == data[r].title
               f == response[r].filename
           IN /\ Len(f) = Len(t) + 1
              /\ f[Len(f)] = ".pdf"
              /\ \A i \in 1..Len(t) : f[i] = IF t[i] = " " THEN "_" ELSE t[i]

C6_Witness ==
    /\ Done(1)
    /\ data[1].title = <<" ", " ">>
    /\ data[1].type = "agenda"
    /\ exc[1] = "JSONDecodeError"
    /\ response[1].filename = <<"_", "_", ".pdf">>

\* The loop of a request is inside its list, or one past its end.
InLoop(r) ==
    /\ pc[r] = "docs" => idx[r] \in 1..(Len(lines[r]) + 1)
    /\ pc[r] = "agenda_items" => idx[r] \in 1..(Len(items[r]) + 1)

C8_NoInterference ==
    \A r \in Reqs : Done(r) => response[r] = Render(data[r])

C8_Witness ==
    /\ \A r \in Reqs : Done(r)
    /\ data[1].type = "agenda"
    /\ data[2].type = "docs"
    /\ response[1] # response[2]

\* C9: for type "agenda" whose content parses to records, row 0 of the table
\* is the header Título, Data, Hora, Status and row i+1 is the title, date,
\* time and status label of record i in that order, a field the record does
\* not supply being the empty string.
C9_AgendaColumns ==
    \A r \in Reqs :
        LET p == JsonLoads(data[r].content)
            cell(rec, key) == IF HasKey(rec, key) THEN Field(rec, key) ELSE Str("")
        IN Done(r) /\ data[r].type = "agenda" /\ p.ok /\ IsRecords(p.val)
           => /\ Len(story[r]) = 3
              /\ TableOf(r).b = "Table"
              /\ Len(TableOf(r).data) = Len(p.val.items) + 1
              /\ TableOf(r).data[1] =
                     <<Str("Título"), Str("Data"), Str("Hora"), Str("Status")>>
              /\ \A i \in 1..Len(p.val.items) :
                    /\ Len(TableOf(r).data[i + 1]) = 4
                    /\ TableOf(r).data[i + 1][1] = cell(p.val.items[i], "title")
                    /\ TableOf(r).data[i + 1][2] = cell(p.val.items[i], "date")
                    /\ TableOf(r).data[i + 1][3] = cell(p.val.items[i], "time")
                    /\ TableOf(r).data[i + 1][4] \in {Str("Concluído"), Str("Pendente")}

C9_Witness ==
    /\ Done(1)
    /\ data[1].type = "agenda"
    /\ data[1].content =
           Serialise(List(<<Record({"date"}, TRUE, PyFalse), FullRecord>>), <<>>)
    /\ TableOf(1).data[2] = <<Str(""), Str("d"), Str(""), Str("Pendente")>>
    /\ TableOf(1).data[3] = <<Str("x"), Str("d"), Str("t"), Str("Concluído")>>

\* The table block holds exactly the parsed rows, cell for cell.
SheetAsGiven(r, v) ==
    /\ Len(story[r]) = 3
    /\ SubSeq(story[r], 1, 2) = TitleBlocks(r)
    /\ TableOf(r).b = "Table"
    /\ Len(TableOf(r).data) = Len(v.items)
    /\ \A i \in 1..Len(v.items) :
          /\ Len(TableOf(r).data[i]) = Len(v.items[i].items)
          /\ \A j \in 1..Len(v.items[i].items) :
                TableOf(r).data[i][j] = v.items[i].items[j]

\* C10 as stated: for type "planilhas" whose content parses to a non-empty
\* row collection, rows of any width, the block sequence is the title block
\* followed by exactly one table block holding the parsed rows as given.
C10_AnySheetAsGiven ==
    \A r \in Reqs :
        LET p == JsonLoads(data[r].content) IN
        Done(r) /\ data[r].type = "planilhas" /\ p.ok /\ IsRows(p.val)
        /\ p.val.items # <<>>
        => SheetAsGiven(r, p.val)

\* C10 amended: for type "planilhas" whose content parses to a non-empty row
\* collection in which at least one row has a cell, the block sequence is
\* the title block followed by exactly one table block holding the parsed
\* rows as given, same order, nothing remapped, defaulted, added or dropped,
\* and no fallback paragraph.
C10_SheetAsGiven ==
    \A r \in Reqs :
        LET p == JsonLoads(data[r].content) IN
        Done(r) /\ data[r].type = "planilhas" /\ p.ok /\ IsRows(p.val)
        /\ (\E i \in 1..Len(p.val.items) : p.val.items[i].items # <<>>)
        => SheetAsGiven(r, p.val)

C10_Witness ==
    /\ Done(1)
    /\ data[1].type = "planilhas"
    /\ data[1].content = Serialise(Sheet(<<2, 0>>), <<>>)
    /\ TableOf(1).data = <<<<Str("x"), Str("d")>>, <<>>>>
====
